---- MODULE Spec2Model ----
(***************************************************************************)
(* Model of src/convert.ts of yaml-eslint-parser: convertRoot turns the    *)
(* yaml-unist-parser tree of a YAML text into a YAMLProgram with tokens,   *)
(* parent links, per-document anchors and lazily computed scalar values.   *)
(*                                                                         *)
(* A text is a sequence of UTF-16 code units, each a one-character string; *)
(* "HS" and "LS" stand for the high and the low surrogate of one character *)
(* outside the basic plane.  Offsets are JavaScript's (0-based).           *)
(***************************************************************************)
EXTENDS Integers, Sequences, FiniteSets, TLC

\* ------------------------------------------------------------------ bounds

\* How many times a consumer reads one scalar's value property.
MaxReads == 2

\* ------------------------------------------------------------- text helpers

Min(a, b) == IF a < b THEN a ELSE b
Max(a, b) == IF a > b THEN a ELSE b

\* String.prototype.slice(a, b): negative indexes count from the end.
Slice(text, a, b) ==
    LET n == Len(text)
        from == IF a < 0 THEN Max(n + a, 0) ELSE Min(a, n)
        to == IF b < 0 THEN Max(n + b, 0) ELSE Min(b, n)
    IN  IF to <= from THEN <<>> ELSE SubSeq(text, from + 1, to)

\* String.prototype.slice(a): to the end of the text.
SliceFrom(text, a) == Slice(text, a, Len(text))

\* text[i] for a 0-based index; <<>> stands for undefined.
CharAt(text, i) == IF i >= 0 /\ i < Len(text) THEN <<text[i + 1]>> ELSE <<>>

\* What \s matches, and so what c.trim() empties.
IsSpace(c) == c \in {" ", "\n", "\t"}

\* segment.replace(/\S/gu, " "): under the u flag a surrogate pair is ONE
\* match and becomes ONE space; white space is kept.
RECURSIVE ReplaceNonSpace(_)
ReplaceNonSpace(seg) ==
    IF seg = <<>> THEN <<>>
    ELSE IF IsSpace(seg[1]) THEN <<seg[1]>> \o ReplaceNonSpace(Tail(seg))
    ELSE IF seg[1] = "HS" /\ Len(seg) >= 2 /\ seg[2] = "LS"
         THEN <<" ">> \o ReplaceNonSpace(SubSeq(seg, 3, Len(seg)))
    ELSE <<" ">> \o ReplaceNonSpace(Tail(seg))

\* One step of the reduce of convertRoot: blank one range of the text.
StripRange(text, range) ==
    Slice(text, 0, range[1])
        \o ReplaceNonSpace(Slice(text, range[1], range[2]))
        \o SliceFrom(text, range[2])

RECURSIVE StripRanges(_, _)
StripRanges(text, ranges) ==
    IF ranges = <<>> THEN text
    ELSE StripRanges(StripRange(text, ranges[1]), Tail(ranges))

StartsWith(text, prefix) ==
    Len(text) >= Len(prefix) /\ SubSeq(text, 1, Len(prefix)) = prefix

\* --------------------------------------------------------- JavaScript values
\* One record shape for every value a scalar can have: t is the typeof-like
\* kind, s the characters of a string (or the name of a special number),
\* n * 10^e the number, b the boolean.

Undefined == [t |-> "undefined", s |-> <<>>, n |-> 0, e |-> 0, b |-> FALSE]
JsNull == [t |-> "null", s |-> <<>>, n |-> 0, e |-> 0, b |-> FALSE]
JsBool(x) == [t |-> "boolean", s |-> <<>>, n |-> 0, e |-> 0, b |-> x]
JsStr(chars) == [t |-> "string", s |-> chars, n |-> 0, e |-> 0, b |-> FALSE]
JsSpecial(name) == [t |-> "number", s |-> <<name>>, n |-> 0, e |-> 0, b |-> FALSE]

RECURSIVE Pow10(_)
Pow10(k) == IF k <= 0 THEN 1 ELSE 10 * Pow10(k - 1)

\* The number m * 10^x in canonical form: no positive exponent, no trailing
\* zero behind the decimal point.
RECURSIVE JsNum(_, _)
JsNum(m, x) ==
    IF m = 0 THEN [t |-> "number", s |-> <<>>, n |-> 0, e |-> 0, b |-> FALSE]
    ELSE IF x > 0 THEN JsNum(m * Pow10(x), 0)
    ELSE IF x < 0 /\ m % 10 = 0 THEN JsNum(m \div 10, x + 1)
    ELSE [t |-> "number", s |-> <<>>, n |-> m, e |-> x, b |-> FALSE]

\* JavaScript truthiness (the left operand of ||).
Truthy(v) ==
    CASE v.t = "undefined" -> FALSE
      [] v.t = "null" -> FALSE
      [] v.t = "boolean" -> v.b
      [] v.t = "string" -> v.s # <<>>
      [] v.t = "number" -> IF v.s # <<>> THEN v.s # <<"NaN">> ELSE v.n # 0
      [] OTHER -> TRUE

\* typeof v === "number" && isFinite(Number(v))
IsFiniteNumber(v) == v.t = "number" /\ v.s = <<>>

\* ------------------------------------------------------------ scalar texts

Digits == {"0", "1", "2", "3", "4", "5", "6", "7", "8", "9"}
OctDigits == {"0", "1", "2", "3", "4", "5", "6", "7"}
HexLower == <<"0", "1", "2", "3", "4", "5", "6", "7", "8", "9",
              "a", "b", "c", "d", "e", "f">>
HexUpper == <<"0", "1", "2", "3", "4", "5", "6", "7", "8", "9",
              "A", "B", "C", "D", "E", "F">>
HexDigits == {HexLower[i] : i \in 1..16} \cup {HexUpper[i] : i \in 1..16}

UpperLetters == <<"A", "F", "I", "N">>
LowerLetters == <<"a", "f", "i", "n">>

\* The letters the case-insensitive test needs (.inf, .nan).
LowerChar(c) ==
    IF \E i \in 1..Len(UpperLetters) : UpperLetters[i] = c
    THEN LowerLetters[CHOOSE i \in 1..Len(UpperLetters) : UpperLetters[i] = c]
    ELSE c

Lower(str) == [i \in 1..Len(str) |-> LowerChar(str[i])]

AllIn(str, set) == \A i \in 1..Len(str) : str[i] \in set

HasSign(str) == str # <<>> /\ str[1] \in {"-", "+"}
Unsigned(str) == IF HasSign(str) THEN Tail(str) ELSE str

DigitVal(c) ==
    IF \E i \in 1..16 : HexLower[i] = c
    THEN (CHOOSE i \in 1..16 : HexLower[i] = c) - 1
    ELSE (CHOOSE i \in 1..16 : HexUpper[i] = c) - 1

RECURSIVE ParseDigits(_, _)
ParseDigits(ds, radix) ==
    IF ds = <<>> THEN 0
    ELSE ParseDigits(SubSeq(ds, 1, Len(ds) - 1), radix) * radix
            + DigitVal(ds[Len(ds)])


isTrue(str) ==
    \/ str = <<"t", "r", "u", "e">>
    \/ str = <<"T", "r", "u", "e">>
    \/ str = <<"T", "R", "U", "E">>

isFalse(str) ==
    \/ str = <<"f", "a", "l", "s", "e">>
    \/ str = <<"F", "a", "l", "s", "e">>
    \/ str = <<"F", "A", "L", "S", "E">>

isNull(str) ==
    \/ str = <<"n", "u", "l", "l">>
    \/ str = <<"N", "u", "l", "l">>
    \/ str = <<"N", "U", "L", "L">>
    \/ str = <<"~">>

\* /^0o([0-7]+)$/u
ReOct(str) ==
    /\ StartsWith(str, <<"0", "o">>)
    /\ Len(str) >= 3
    /\ AllIn(SubSeq(str, 3, Len(str)), OctDigits)

\* /^[-+]?[0-9]+$/u
ReInt(str) == Unsigned(str) # <<>> /\ AllIn(Unsigned(str), Digits)

\* /^0x([0-9a-fA-F]+)$/u
ReHex(str) ==
    /\ StartsWith(str, <<"0", "x">>)
    /\ Len(str) >= 3
    /\ AllIn(SubSeq(str, 3, Len(str)), HexDigits)

\* /^(?:[-+]?\.inf|(\.nan))$/iu
ReNan(str) ==
    \/ Lower(Unsigned(str)) = <<".", "i", "n", "f">>
    \/ Lower(str) = <<".", "n", "a", "n">>

\* The places of "." in an unsigned mantissa.
Dots(u) == {k \in 1..Len(u) : u[k] = "."}
IntPart(u) == IF Dots(u) = {} THEN u
              ELSE SubSeq(u, 1, (CHOOSE k \in Dots(u) : TRUE) - 1)
FracPart(u) == IF Dots(u) = {} THEN <<>>
               ELSE SubSeq(u, (CHOOSE k \in Dots(u) : TRUE) + 1, Len(u))

\* \.[0-9]+ | [0-9]+\.[0-9]*
ReDotted(u) ==
    /\ Cardinality(Dots(u)) = 1
    /\ AllIn(IntPart(u), Digits)
    /\ AllIn(FracPart(u), Digits)
    /\ (IntPart(u) # <<>> \/ FracPart(u) # <<>>)

\* The places of the exponent letter.
Exps(str) == {k \in 1..Len(str) : str[k] \in {"e", "E"}}
ExpLeft(str) == SubSeq(str, 1, (CHOOSE k \in Exps(str) : TRUE) - 1)
ExpRight(str) == SubSeq(str, (CHOOSE k \in Exps(str) : TRUE) + 1, Len(str))

\* /^[-+]?(?:\.[0-9]+|[0-9]+(?:\.[0-9]*)?)[eE][-+]?[0-9]+$/u
ReExp(str) ==
    /\ Cardinality(Exps(str)) = 1
    /\ LET u == Unsigned(ExpLeft(str))
       IN  ReDotted(u) \/ (u # <<>> /\ AllIn(u, Digits))
    /\ ReInt(ExpRight(str))

\* /^[-+]?(?:\.([0-9]+)|[0-9]+\.([0-9]*))$/u
ReFloat(str) == ReDotted(Unsigned(str))

needParse(str) ==
    \/ ReOct(str)
    \/ ReInt(str)
    \/ ReHex(str)
    \/ ReNan(str)
    \/ ReExp(str)
    \/ ReFloat(str)

\* ------------------------------------------------------ the `yaml` package

Signed(str, m) == IF str # <<>> /\ str[1] = "-" THEN 0 - m ELSE m

\* parseFloat of a signed mantissa with an optional fraction.
Mantissa(str) == Signed(str, ParseDigits(IntPart(Unsigned(str))
                                          \o FracPart(Unsigned(str)), 10))
FracLen(str) == Len(FracPart(Unsigned(str)))

\* yaml.parse(str) of a one-token plain text: the core schema's resolution.
YamlParse(str) ==
    CASE isNull(str) \/ str = <<>> -> JsNull
      [] isTrue(str) -> JsBool(TRUE)
      [] isFalse(str) -> JsBool(FALSE)
      [] ReOct(str) -> JsNum(ParseDigits(SubSeq(str, 3, Len(str)), 8), 0)
      [] ReInt(str) -> JsNum(Signed(str, ParseDigits(Unsigned(str), 10)), 0)
      [] ReHex(str) -> JsNum(ParseDigits(SubSeq(str, 3, Len(str)), 16), 0)
      [] ReNan(str) ->
            IF Lower(str) = <<".", "n", "a", "n">> THEN JsSpecial("NaN")
            ELSE IF str[1] = "-" THEN JsSpecial("-Infinity")
            ELSE JsSpecial("Infinity")
      [] ReExp(str) ->
            JsNum(Mantissa(ExpLeft(str)),
                  Signed(ExpRight(str), ParseDigits(Unsigned(ExpRight(str)), 10))
                      - FracLen(ExpLeft(str)))
      [] ReFloat(str) -> JsNum(Mantissa(str), 0 - FracLen(str))
      [] OTHER -> JsStr(str)

\* yaml.parseDocument(doc).toJSON(): the value the external parser builds from
\* a one-line document "<tag> <text>".  Its resolution of tags is outside
\* this program; the result is kept as a function of the document text.
YamlParseDocument(doc) ==
    [t |-> "external", s |-> doc, n |-> 0, e |-> 0, b |-> FALSE]

\* ------------------------------------------------------------------- tags

TagPrefix == <<"t", "a", "g", ":", "y", "a", "m", "l", ".", "o", "r", "g",
               ",", "2", "0", "0", "2", ":">>
TagStr == TagPrefix \o <<"s", "t", "r">>
TagInt == TagPrefix \o <<"i", "n", "t">>
TagBool == TagPrefix \o <<"b", "o", "o", "l">>
TagNull == TagPrefix \o <<"n", "u", "l", "l">>

\* /^(?:[1-9]\d*|0)$/u
ReTagInt(str) ==
    \/ str = <<"0">>
    \/ str # <<>> /\ AllIn(str, Digits) /\ str[1] # "0"

\* tag.value.startsWith("!") ? tag.value : `!<${tag.value}>`
TagText(tagValue) ==
    IF StartsWith(tagValue, <<"!">>) THEN tagValue
    ELSE <<"!", "<">> \o tagValue \o <<">">>

TaggedFallback(tagValue, text) ==
    YamlParseDocument(TagText(tagValue) \o <<" ">> \o text)

getTaggedValue(tagValue, text, str) ==
    IF tagValue = TagStr THEN JsStr(str)
    ELSE IF tagValue = TagInt /\ ReTagInt(str)
         THEN JsNum(ParseDigits(str, 10), 0)
    ELSE IF tagValue = TagBool /\ isTrue(str) THEN JsBool(TRUE)
    ELSE IF tagValue = TagBool /\ isFalse(str) THEN JsBool(FALSE)
    ELSE IF tagValue = TagNull /\ (isNull(str) \/ str = <<>>) THEN JsNull
    ELSE TaggedFallback(tagValue, text)

\* Sensitivity of C8: the numeric branch without `|| strValue`.
PlainTokenValueNoFallback(strValue) ==
    IF isTrue(strValue) THEN JsBool(TRUE)
    ELSE IF isFalse(strValue) THEN JsBool(FALSE)
    ELSE IF isNull(strValue) THEN JsNull
    ELSE IF needParse(strValue) THEN YamlParse(strValue)
    ELSE JsStr(strValue)

\* The tokenValue of convertPlain.
PlainTokenValue(strValue) ==
    IF isTrue(strValue) THEN JsBool(TRUE)
    ELSE IF isFalse(strValue) THEN JsBool(FALSE)
    ELSE IF isNull(strValue) THEN JsNull
    ELSE IF needParse(strValue)
         THEN IF Truthy(YamlParse(strValue)) THEN YamlParse(strValue)
              ELSE JsStr(strValue)
    ELSE JsStr(strValue)

\* The token type convertPlain emits for a tokenValue.
PlainTokenType(tokenValue) ==
    IF tokenValue.t = "boolean" THEN "Boolean"
    ELSE IF IsFiniteNumber(tokenValue) THEN "Numeric"
    ELSE IF tokenValue.t = "null" THEN "Null"
    ELSE "Identifier"

\* --------------------------------------------------------------- locations

\* getConvertLocation: the yaml-unist-parser position (1-based column) as
\* {range, loc} with a 0-based column.
getConvertLocation(node) ==
    [range |-> <<node.position.start.offset, node.position.end.offset>>,
     loc |-> [start |-> [line |-> node.position.start.line,
                         column |-> node.position.start.column - 1],
              end |-> [line |-> node.position.end.line,
                       column |-> node.position.end.column - 1]]]

\* addToken: the value is the slice of the text the caller holds.
addToken(tokens, type, loc, code) ==
    Append(tokens, [type |-> type,
                    value |-> Slice(code, loc.range[1], loc.range[2]),
                    range |-> loc.range,
                    loc |-> loc.loc])

\* --------------------------------------------------------- the tree walker
\* The walk threads one record: nodes (the output nodes, a node's id is its
\* index; parent 0 is null), tokens (the shared buffer), log (the anchors in
\* the order they were converted), err (an Unsupported node error was thrown)
\* and the results of the last call: ret, anchor, tag (0 is null).

NewId(st) == Len(st.nodes) + 1

\* const ast = {...}: the node under construction joins the tree.
AddNode(st, ast) == [st EXCEPT !.nodes = Append(@, ast)]

\* return ast
Return(st, id) == [st EXCEPT !.ret = id]

\* ast[field] = <the node the last call returned>
StoreRet(st, id, field) == [st EXCEPT !.nodes[id][field] = st.ret]

\* ast[field].push(<the node the last call returned>)
PushRet(st, id, field) == [st EXCEPT !.nodes[id][field] = Append(@, st.ret)]

\* The Punctuator + Identifier pair of an anchor, an alias or a tag, or the
\* whole-range Identifier when the text lacks the sigil.
SigilTokens(tokens, code, loc, sigil, width) ==
    IF StartsWith(Slice(code, loc.range[1], loc.range[2]), sigil)
    THEN addToken(addToken(tokens, "Punctuator",
                      [range |-> <<loc.range[1], loc.range[1] + width>>,
                       loc |-> [start |-> loc.loc.start,
                                end |-> [line |-> loc.loc.start.line,
                                         column |-> loc.loc.start.column + width]]],
                      code),
                  "Identifier",
                  [range |-> <<loc.range[1] + width, loc.range[2]>>,
                   loc |-> [start |-> [line |-> loc.loc.start.line,
                                       column |-> loc.loc.start.column + width],
                            end |-> loc.loc.end]],
                  code)
    ELSE addToken(tokens, "Identifier", loc, code)

\* Sensitivity of C5: a registry in which the first anchor of a name stays.
RegisterAnchorFirst(anchors, name, id) ==
    IF name \in DOMAIN anchors THEN anchors
    ELSE [x \in (DOMAIN anchors) \cup {name} |-> IF x = name THEN id ELSE anchors[x]]

\* doc.anchors[value] = ast
RegisterAnchor(anchors, name, id) ==
    [x \in (DOMAIN anchors) \cup {name} |-> IF x = name THEN id ELSE anchors[x]]

convertAnchor(st, node, code, parent, doc) ==
    [st EXCEPT
        !.nodes = [Append(@, [type |-> "YAMLAnchor", name |-> node.value,
                              parent |-> parent,
                              range |-> getConvertLocation(node).range,
                              loc |-> getConvertLocation(node).loc])
                   EXCEPT ![doc].anchors =
                       RegisterAnchor(@, node.value, NewId(st))],
        !.log = Append(@, [doc |-> doc, name |-> node.value, id |-> NewId(st)]),
        !.tokens = SigilTokens(@, code, getConvertLocation(node), <<"&">>, 1),
        !.ret = NewId(st)]

\* text.startsWith("!!") ? 2 : 1
TagSigilWidth(text) == IF StartsWith(text, <<"!", "!">>) THEN 2 ELSE 1

convertTag(st, node, code, parent) ==
    [st EXCEPT
        !.nodes = Append(@, [type |-> "YAMLTag", tag |-> node.value,
                             parent |-> parent,
                             range |-> getConvertLocation(node).range,
                             loc |-> getConvertLocation(node).loc]),
        !.tokens = SigilTokens(@, code, getConvertLocation(node), <<"!">>,
                       TagSigilWidth(Slice(code, node.position.start.offset,
                                           node.position.end.offset))),
        !.ret = NewId(st)]

\* The two fields of the object convertAnchorAndTag returns, in the order
\* they are evaluated.
AnchorField(st, node, code, parent, doc) ==
    IF node.anchor # <<>>
    THEN [convertAnchor(st, node.anchor[1], code, parent, doc)
          EXCEPT !.anchor = NewId(st)]
    ELSE [st EXCEPT !.anchor = 0]

TagField(st, node, code, parent) ==
    IF node.tag # <<>>
    THEN [convertTag(st, node.tag[1], code, parent) EXCEPT !.tag = NewId(st)]
    ELSE [st EXCEPT !.tag = 0]

convertAnchorAndTag(st, node, code, parent, doc) ==
    TagField(AnchorField(st, node, code, parent, doc), node, code, parent)

\* ast.anchor = anchor; ast.tag = tag
SetAnchorAndTag(st, id) ==
    [st EXCEPT !.nodes[id].anchor = st.anchor, !.nodes[id].tag = st.tag]

\* A content node with its anchor and tag converted and attached.
WithAnchorAndTag(st, ast, node, code, doc) ==
    SetAnchorAndTag(
        convertAnchorAndTag(AddNode(st, ast), node, code, NewId(st), doc),
        NewId(st))

\* What the value getter of a scalar closes over: the upstream tag, the two
\* arguments of getTaggedValue, and the value of an untagged scalar.
Getter(node, text, str, untagged) ==
    [tagged |-> node.tag # <<>>,
     tagValue |-> IF node.tag # <<>> THEN node.tag[1].value ELSE <<>>,
     text |-> text, str |-> str, untagged |-> untagged]

\* The token of a scalar, added after its anchor and tag.
ScalarToken(st, type, node, code, id) ==
    [st EXCEPT !.tokens = addToken(@, type, getConvertLocation(node), code),
               !.ret = id]

convertPlain(st, node, code, parent, doc) ==
    ScalarToken(
        WithAnchorAndTag(
            st,
            [type |-> "YAMLScalar", style |-> "plain", strValue |-> node.value,
             getter |-> Getter(node, node.value, node.value,
                               PlainTokenValue(node.value)),
             anchor |-> 0, tag |-> 0, parent |-> parent,
             range |-> getConvertLocation(node).range,
             loc |-> getConvertLocation(node).loc],
            node, code, doc),
        PlainTokenType(PlainTokenValue(node.value)), node, code, NewId(st))

\* Sensitivity of C9: a quoted scalar resolved the way a plain one is.
QuotedValueResolved(strValue) == PlainTokenValue(strValue)

\* The value of an untagged quoted scalar.
QuotedValue(strValue) == JsStr(strValue)

\* convertQuoteDouble and convertQuoteSingle differ in the style alone.
convertQuote(st, node, code, parent, doc, style) ==
    ScalarToken(
        WithAnchorAndTag(
            st,
            [type |-> "YAMLScalar", style |-> style, strValue |-> node.value,
             getter |-> Getter(node,
                               Slice(code, node.position.start.offset,
                                     node.position.end.offset),
                               node.value, QuotedValue(node.value)),
             anchor |-> 0, tag |-> 0, parent |-> parent,
             range |-> getConvertLocation(node).range,
             loc |-> getConvertLocation(node).loc],
            node, code, doc),
        "String", node, code, NewId(st))

convertQuoteDouble(st, node, code, parent, doc) ==
    convertQuote(st, node, code, parent, doc, "double-quoted")

convertQuoteSingle(st, node, code, parent, doc) ==
    convertQuote(st, node, code, parent, doc, "single-quoted")

\* The first loop of a block scalar: the header runs from index 1 to the
\* first white space.
RECURSIVE HeaderEnd(_, _, _, _)
HeaderEnd(text, index, line, column) ==
    IF index >= Len(text) \/ IsSpace(text[index + 1])
    THEN [index |-> index, line |-> line, column |-> column]
    ELSE IF text[index + 1] = "\n"
         THEN [index |-> index, line |-> line + 1, column |-> 0]
    ELSE HeaderEnd(text, index + 1, line, column + 1)

\* The second loop: skip the white space between the header and the body.
RECURSIVE BodyStart(_, _, _, _)
BodyStart(text, index, line, column) ==
    IF index >= Len(text) \/ ~IsSpace(text[index + 1])
    THEN [index |-> index, line |-> line, column |-> column]
    ELSE IF text[index + 1] = "\n"
         THEN BodyStart(text, index + 1, line + 1, 0)
    ELSE BodyStart(text, index + 1, line, column + 1)

\* The Punctuator of the header, ending where the first loop stopped at h,
\* and the body token, starting where the second loop stopped at b.
HeaderAndBody(tokens, code, loc, type, h, b) ==
    addToken(addToken(tokens, "Punctuator",
                 [range |-> <<loc.range[1], loc.range[1] + h.index>>,
                  loc |-> [start |-> loc.loc.start,
                           end |-> [line |-> h.line, column |-> h.column]]],
                 code),
             type,
             [range |-> <<loc.range[1] + b.index, loc.range[2]>>,
              loc |-> [start |-> [line |-> b.line, column |-> b.column],
                       end |-> loc.loc.end]],
             code)

BodyAfter(text, h) == BodyStart(text, h.index, h.line, h.column)

BlockSplit(tokens, code, loc, type, text, h) ==
    HeaderAndBody(tokens, code, loc, type, h, BodyAfter(text, h))

BlockTokens(tokens, code, loc, sigil, type, text) ==
    IF StartsWith(text, sigil)
    THEN BlockSplit(tokens, code, loc, type, text,
                    HeaderEnd(text, 1, loc.loc.start.line,
                              loc.loc.start.column + 1))
    ELSE addToken(tokens, type, loc, code)

BlockToken(st, node, code, sigil, type, id) ==
    [st EXCEPT
        !.tokens = BlockTokens(@, code, getConvertLocation(node), sigil, type,
                               Slice(code, node.position.start.offset,
                                     node.position.end.offset)),
        !.ret = id]

\* The value of a literal or folded scalar: node.value, stored when the node
\* is built; the tag plays no part in it.
BlockValue(node) == JsStr(node.value)

\* convertBlockLiteral and convertBlockFolded.
convertBlock(st, node, code, parent, doc, style, sigil, type) ==
    BlockToken(
        WithAnchorAndTag(
            st,
            [type |-> "YAMLScalar", style |-> style,
             chomping |-> node.chomping, indent |-> node.indent,
             value |-> BlockValue(node),
             anchor |-> 0, tag |-> 0, parent |-> parent,
             range |-> getConvertLocation(node).range,
             loc |-> getConvertLocation(node).loc],
            node, code, doc),
        node, code, sigil, type, NewId(st))

convertBlockLiteral(st, node, code, parent, doc) ==
    convertBlock(st, node, code, parent, doc, "literal", <<"|">>, "BlockLiteral")

convertBlockFolded(st, node, code, parent, doc) ==
    convertBlock(st, node, code, parent, doc, "folded", <<">">>, "BlockFolded")

AliasTokens(st, node, code, id) ==
    [st EXCEPT
        !.tokens = SigilTokens(@, code, getConvertLocation(node), <<"*">>, 1),
        !.ret = id]

convertAlias(st, node, code, parent, doc) ==
    AliasTokens(
        WithAnchorAndTag(
            st,
            [type |-> "YAMLAlias", name |-> node.value,
             anchor |-> 0, tag |-> 0, parent |-> parent,
             range |-> getConvertLocation(node).range,
             loc |-> getConvertLocation(node).loc],
            node, code, doc),
        node, code, NewId(st))

RECURSIVE convertContentNode(_, _, _, _, _)
RECURSIVE convertMappingItem(_, _, _, _, _)
RECURSIVE MappingPairs(_, _, _, _, _)
RECURSIVE SequenceEntries(_, _, _, _, _)
RECURSIVE FlowSequenceEntries(_, _, _, _, _, _)

\* convertMappingKey and convertMappingValue: the first child, or null.
convertMappingSide(st, node, code, parent, doc) ==
    IF Len(node.children) > 0
    THEN convertContentNode(st, node.children[1], code, parent, doc)
    ELSE Return(st, 0)

convertMappingItem(st, node, code, parent, doc) ==
    Return(
        StoreRet(
            convertMappingSide(
                StoreRet(
                    convertMappingSide(
                        AddNode(st, [type |-> "YAMLPair", key |-> 0, value |-> 0,
                                     parent |-> parent,
                                     range |-> getConvertLocation(node).range,
                                     loc |-> getConvertLocation(node).loc]),
                        node.children[1], code, NewId(st), doc),
                    NewId(st), "key"),
                node.children[2], code, NewId(st), doc),
            NewId(st), "value"),
        NewId(st))

\* for (const n of node.children) ast.pairs.push(convertMappingItem(...))
MappingPairs(st, children, code, ast, doc) ==
    IF children = <<>> THEN st
    ELSE MappingPairs(
             PushRet(convertMappingItem(st, children[1], code, ast, doc),
                     ast, "pairs"),
             Tail(children), code, ast, doc)

\* The anchor and tag of a collection are converted after its children.
CollectionEnd(st, node, code, id, doc) ==
    Return(SetAnchorAndTag(convertAnchorAndTag(st, node, code, id, doc), id), id)

\* convertMapping and convertFlowMapping differ in the style alone.
convertMappingOf(st, node, code, parent, doc, style) ==
    CollectionEnd(
        MappingPairs(
            AddNode(st, [type |-> "YAMLMapping", style |-> style, pairs |-> <<>>,
                         anchor |-> 0, tag |-> 0, parent |-> parent,
                         range |-> getConvertLocation(node).range,
                         loc |-> getConvertLocation(node).loc]),
            node.children, code, NewId(st), doc),
        node, code, NewId(st), doc)

convertMapping(st, node, code, parent, doc) ==
    convertMappingOf(st, node, code, parent, doc, "block")

convertFlowMapping(st, node, code, parent, doc) ==
    convertMappingOf(st, node, code, parent, doc, "flow")

\* convertSequenceItem yields the conversion of the first child, if any.
convertSequenceItem(st, node, code, parent, doc) ==
    IF Len(node.children) > 0
    THEN PushRet(convertContentNode(st, node.children[1], code, parent, doc),
                 parent, "entries")
    ELSE st

SequenceEntries(st, children, code, ast, doc) ==
    IF children = <<>> THEN st
    ELSE SequenceEntries(convertSequenceItem(st, children[1], code, ast, doc),
                         Tail(children), code, ast, doc)

convertSequence(st, node, code, parent, doc) ==
    CollectionEnd(
        SequenceEntries(
            AddNode(st, [type |-> "YAMLSequence", style |-> "block",
                         entries |-> <<>>,
                         anchor |-> 0, tag |-> 0, parent |-> parent,
                         range |-> getConvertLocation(node).range,
                         loc |-> getConvertLocation(node).loc]),
            node.children, code, NewId(st), doc),
        node, code, NewId(st), doc)

\* The parent the synthetic mapping of a flow mapping item is given:
\* `parent`, the parameter of convertFlowSequence.
SyntheticMapParent(ast, parent) == parent

\* Sensitivity of C16: the pair itself is pushed to the entries.
PushSyntheticPair(st, map, ast) ==
    [st EXCEPT !.nodes[map].pairs = Append(@, st.ret),
               !.nodes[ast].entries = Append(@, st.ret)]

\* map.pairs.push(pair); ast.entries.push(map)
PushSynthetic(st, map, ast) ==
    [st EXCEPT !.nodes[map].pairs = Append(@, st.ret),
               !.nodes[ast].entries = Append(@, map)]

\* A flowMappingItem directly inside a flow sequence: a block mapping with
\* the item's location and one pair.
SyntheticMapping(st, n, code, ast, parent, doc) ==
    PushSynthetic(
        convertMappingItem(
            AddNode(st, [type |-> "YAMLMapping", style |-> "block",
                         pairs |-> <<>>, anchor |-> 0, tag |-> 0,
                         parent |-> SyntheticMapParent(ast, parent),
                         range |-> getConvertLocation(n).range,
                         loc |-> getConvertLocation(n).loc]),
            n, code, NewId(st), doc),
        NewId(st), ast)

\* One round of the loop of convertFlowSequence: a child that is neither
\* kind of item adds nothing.
FlowSequenceChild(st, n, code, ast, parent, doc) ==
    CASE n.type = "flowSequenceItem" -> convertSequenceItem(st, n, code, ast, doc)
      [] n.type = "flowMappingItem" ->
            SyntheticMapping(st, n, code, ast, parent, doc)
      [] OTHER -> st

FlowSequenceEntries(st, children, code, ast, parent, doc) ==
    IF children = <<>> THEN st
    ELSE FlowSequenceEntries(
             FlowSequenceChild(st, children[1], code, ast, parent, doc),
             Tail(children), code, ast, parent, doc)

convertFlowSequence(st, node, code, parent, doc) ==
    CollectionEnd(
        FlowSequenceEntries(
            AddNode(st, [type |-> "YAMLSequence", style |-> "flow",
                         entries |-> <<>>,
                         anchor |-> 0, tag |-> 0, parent |-> parent,
                         range |-> getConvertLocation(node).range,
                         loc |-> getConvertLocation(node).loc]),
            node.children, code, NewId(st), parent, doc),
        node, code, NewId(st), doc)

convertContentNode(st, node, code, parent, doc) ==
    CASE node.type = "mapping" -> convertMapping(st, node, code, parent, doc)
      [] node.type = "flowMapping" -> convertFlowMapping(st, node, code, parent, doc)
      [] node.type = "sequence" -> convertSequence(st, node, code, parent, doc)
      [] node.type = "flowSequence" -> convertFlowSequence(st, node, code, parent, doc)
      [] node.type = "plain" -> convertPlain(st, node, code, parent, doc)
      [] node.type = "quoteDouble" -> convertQuoteDouble(st, node, code, parent, doc)
      [] node.type = "quoteSingle" -> convertQuoteSingle(st, node, code, parent, doc)
      [] node.type = "blockLiteral" -> convertBlockLiteral(st, node, code, parent, doc)
      [] node.type = "blockFolded" -> convertBlockFolded(st, node, code, parent, doc)
      [] node.type = "alias" -> convertAlias(st, node, code, parent, doc)
      [] OTHER -> [st EXCEPT !.err = TRUE, !.ret = 0]

\* ------------------------------------------------------------- documents

\* The Marker token of a document head or a document: three characters
\* ending at the end of the range, emitted when the last character is `ch`.
MarkerTokens(tokens, code, loc, ch) ==
    IF CharAt(code, loc.range[2] - 1) = <<ch>>
    THEN addToken(tokens, "Marker",
                  [range |-> <<loc.range[2] - 3, loc.range[2]>>,
                   loc |-> [start |-> [line |-> loc.loc.end.line,
                                       column |-> loc.loc.end.column - 3],
                            end |-> loc.loc.end]],
                  code)
    ELSE tokens

Marker(st, node, code, ch) ==
    [st EXCEPT !.tokens = MarkerTokens(@, code, getConvertLocation(node), ch)]

convertDirective(st, node, code, parent) ==
    [st EXCEPT
        !.nodes = Append(@, [type |-> "YAMLDirective",
                             value |-> Slice(code, node.position.start.offset,
                                             node.position.end.offset),
                             parent |-> parent,
                             range |-> getConvertLocation(node).range,
                             loc |-> getConvertLocation(node).loc]),
        !.tokens = addToken(@, "Directive", getConvertLocation(node), code),
        !.ret = NewId(st)]

RECURSIVE Directives(_, _, _, _)
Directives(st, children, code, parent) ==
    IF children = <<>> THEN st
    ELSE Directives(PushRet(convertDirective(st, children[1], code, parent),
                            parent, "directives"),
                    Tail(children), code, parent)

convertDocumentHead(st, node, code, parent) ==
    Marker(Directives(st, node.children, code, parent), node, code, "-")

convertDocumentBody(st, node, code, parent) ==
    IF Len(node.children) > 0
    THEN convertContentNode(st, node.children[1], code, parent, parent)
    ELSE Return(st, 0)

convertDocument(st, node, code, parent) ==
    Return(
        Marker(
            StoreRet(
                convertDocumentBody(
                    convertDocumentHead(
                        AddNode(st, [type |-> "YAMLDocument",
                                     directives |-> <<>>, content |-> 0,
                                     parent |-> parent, anchors |-> <<>>,
                                     range |-> getConvertLocation(node).range,
                                     loc |-> getConvertLocation(node).loc]),
                        node.children[1], code, NewId(st)),
                    node.children[2], code, NewId(st)),
                NewId(st), "content"),
            node, code, "."),
        NewId(st))

\* ------------------------------------------------- the upstream tree (input)
\* A yaml-unist-parser node: position {start, end} of {offset, line, column}
\* with 1-based line and column, children, value, and the anchor and tag of
\* a content node (<<>> when absent, <<node>> when present).

NewlinesBefore(src, off) == {i \in 1..off : src[i] = "\n"}

Pos(src, off) ==
    LET nl == NewlinesBefore(src, off)
        lineStart == IF nl = {} THEN 0
                     ELSE CHOOSE i \in nl : \A j \in nl : j <= i
    IN  [offset |-> off, line |-> 1 + Cardinality(nl),
         column |-> off - lineStart + 1]

U(src, type, s, e, children, value) ==
    [type |-> type,
     position |-> [start |-> Pos(src, s), end |-> Pos(src, e)],
     children |-> children, value |-> value,
     anchor |-> <<>>, tag |-> <<>>, chomping |-> "clip", indent |-> 0]

WithAnchor(node, a) == [node EXCEPT !.anchor = <<a>>]
WithTag(node, t) == [node EXCEPT !.tag = <<t>>]
WithChomping(node, c) == [node EXCEPT !.chomping = c]

Anchor(src, s, e, name) == U(src, "anchor", s, e, <<>>, name)
Tag(src, s, e, value) == U(src, "tag", s, e, <<>>, value)
Plain(src, s, e) == U(src, "plain", s, e, <<>>, Slice(src, s, e))

\* A mapping item of `key value` sides; a side is <<>> or <<content>>.
Item(src, type, s, e, mid, key, value) ==
    U(src, type, s, e,
      <<U(src, "mappingKey", s, mid, key, <<>>),
        U(src, "mappingValue", mid, e, value, <<>>)>>, <<>>)

\* A document without directives: the head is `---` at [hs, he) or empty.
Doc(src, hs, he, e, content) ==
    U(src, "document", hs, e,
      <<U(src, "documentHead", hs, he, <<>>, <<>>),
        U(src, "documentBody", he, e, content, <<>>)>>, <<>>)

Root(src, docs, comments) ==
    [type |-> "root",
     position |-> [start |-> Pos(src, 0), end |-> Pos(src, Len(src))],
     children |-> docs, comments |-> comments]

Fixture(src, docs, comments) ==
    [code |-> src, root |-> Root(src, docs, comments)]

\* One document holding one content node.
Single(src, content) ==
    Fixture(src, <<Doc(src, 0, 0, Len(src), <<content>>)>>, <<>>)

\* The plain scalars whose token type and value are resolved.
PlainTexts ==
    << <<"t", "r", "u", "e">>,
       <<"T", "r", "u", "e">>,
       <<"T", "R", "U", "E">>,
       <<"f", "a", "l", "s", "e">>,
       <<"F", "a", "l", "s", "e">>,
       <<"F", "A", "L", "S", "E">>,
       <<"n", "u", "l", "l">>,
       <<"N", "u", "l", "l">>,
       <<"N", "U", "L", "L">>,
       <<"~">>,
       <<"0", "o", "1", "7">>,
       <<"0", "o", "0">>,
       <<"1", "2">>,
       <<"-", "3">>,
       <<"+", "7">>,
       <<"0">>,
       <<"-", "0">>,
       <<"0", "0", "7">>,
       <<"0", "x", "1", "F">>,
       <<"0", "x", "a">>,
       <<"0", "x", "0">>,
       <<".", "i", "n", "f">>,
       <<"-", ".", "I", "N", "F">>,
       <<"+", ".", "I", "n", "f">>,
       <<".", "N", "a", "N">>,
       <<"1", "e", "3">>,
       <<"1", "2", "e", "-", "1">>,
       <<"0", "e", "0">>,
       <<"1", ".", "5">>,
       <<".", "5">>,
       <<"1", ".">>,
       <<"0", ".", "0">>,
       <<"-", "2", ".", "5", "0">>,
       <<"a", "b", "c">>,
       <<"1", "a">>,
       <<"0", "x">>,
       <<"0", "o", "8">>,
       <<"t", "R", "u", "e">>,
       <<"e", "1">>,
       <<".">>,
       <<"1", "e">>,
       <<"n", "u", "l">> >>

\* An untagged plain scalar on a line of its own.
PlainDoc(text) ==
    Single(text \o <<"\n">>, Plain(text \o <<"\n">>, 0, Len(text)))

TagTable ==
    << [src |-> <<"!", "!", "s", "t", "r">>, value |-> TagStr],
       [src |-> <<"!", "!", "i", "n", "t">>, value |-> TagInt],
       [src |-> <<"!", "!", "b", "o", "o", "l">>, value |-> TagBool],
       [src |-> <<"!", "!", "n", "u", "l", "l">>, value |-> TagNull],
       [src |-> <<"!", "!", "f", "l", "o", "a", "t">>,
        value |-> TagPrefix \o <<"f", "l", "o", "a", "t">>],
       [src |-> <<"!", "f">>, value |-> <<"!", "f">>] >>

\* Scalars of the five styles that are given each tag of TagTable: the text
\* as written, the value the upstream parser decoded, what follows it.
TaggedScalars ==
    << [type |-> "plain", raw |-> <<"1", "2">>, value |-> <<"1", "2">>,
        trail |-> <<"\n">>, chomping |-> "clip"],
       [type |-> "plain", raw |-> <<"0">>, value |-> <<"0">>,
        trail |-> <<"\n">>, chomping |-> "clip"],
       [type |-> "plain", raw |-> <<"0", "1", "2">>, value |-> <<"0", "1", "2">>,
        trail |-> <<"\n">>, chomping |-> "clip"],
       [type |-> "plain", raw |-> <<"t", "r", "u", "e">>, value |-> <<"t", "r", "u", "e">>,
        trail |-> <<"\n">>, chomping |-> "clip"],
       [type |-> "plain", raw |-> <<"F", "A", "L", "S", "E">>, value |-> <<"F", "A", "L", "S", "E">>,
        trail |-> <<"\n">>, chomping |-> "clip"],
       [type |-> "plain", raw |-> <<"~">>, value |-> <<"~">>,
        trail |-> <<"\n">>, chomping |-> "clip"],
       [type |-> "plain", raw |-> <<"a", "b">>, value |-> <<"a", "b">>,
        trail |-> <<"\n">>, chomping |-> "clip"],
       [type |-> "quoteDouble", raw |-> <<"\"", "1", "2", "\"">>,
        value |-> <<"1", "2">>, trail |-> <<"\n">>, chomping |-> "clip"],
       [type |-> "quoteDouble", raw |-> <<"\"", "\"">>,
        value |-> <<>>, trail |-> <<"\n">>, chomping |-> "clip"],
       [type |-> "quoteDouble", raw |-> <<"\"", "a", "\\", "n", "\"">>,
        value |-> <<"a", "\n">>, trail |-> <<"\n">>, chomping |-> "clip"],
       [type |-> "quoteSingle", raw |-> <<"'", "t", "r", "u", "e", "'">>,
        value |-> <<"t", "r", "u", "e">>, trail |-> <<"\n">>, chomping |-> "clip"],
       [type |-> "quoteSingle", raw |-> <<"'", "N", "U", "L", "L", "'">>,
        value |-> <<"N", "U", "L", "L">>, trail |-> <<"\n">>, chomping |-> "clip"],
       [type |-> "blockLiteral", raw |-> <<"|", "-", "\n", " ", "1", "2">>,
        value |-> <<"1", "2">>, trail |-> <<>>, chomping |-> "strip"],
       [type |-> "blockFolded", raw |-> <<">", "-", "\n", " ", "a">>,
        value |-> <<"a">>, trail |-> <<>>, chomping |-> "strip"] >>

\* `<tag> <scalar>`: the content node spans the scalar alone, the tag lies
\* before it.
TaggedDoc(tag, sc) ==
    LET src == tag.src \o <<" ">> \o sc.raw \o sc.trail
        s == Len(tag.src) + 1
        node == U(src, sc.type, s, s + Len(sc.raw), <<>>, sc.value)
    IN  Single(src, WithTag(WithChomping(node, sc.chomping),
                            Tag(src, 0, Len(tag.src), tag.value)))

\* The same scalars without a tag.
UntaggedDoc(sc) ==
    LET src == sc.raw \o sc.trail
    IN  Single(src, WithChomping(U(src, sc.type, 0, Len(sc.raw), <<>>, sc.value),
                                 sc.chomping))

\* ------------------------------------------------------- structural inputs
\* Each text with the tree yaml-unist-parser gives for it.  A content node
\* spans its own text, not its anchor or tag; a document without an end
\* marker ends where its contents end; a head without `---` is empty.

\* a: 1   (4 units)
SrcPair ==
    <<"a", ":", " ", "1">>

\* - true\n- ~   (10 units)
SrcSeq ==
    <<"-", " ", "t", "r", "u", "e", "\n", "-", " ", "~">>

\* k: &x v\nr: *x   (13 units)
SrcAlias ==
    <<"k", ":", " ", "&", "x", " ", "v", "\n", "r", ":", " ", "*", "x">>

\* [a: 1]   (6 units)
SrcFlowPair ==
    <<"[", "a", ":", " ", "1", "]">>

\* [x, &y z]   (9 units)
SrcFlowSeq ==
    <<"[", "x", ",", " ", "&", "y", " ", "z", "]">>

\* {a: 1}   (6 units)
SrcFlowMap ==
    <<"{", "a", ":", " ", "1", "}">>

\* # (HS LS)\na: 1   (9 units)
SrcAstralComment ==
    <<"#", " ", "HS", "LS", "\n", "a", ":", " ", "1">>

\* "(HS LS)": 1   (7 units)
SrcAstralKey ==
    <<"\"", "HS", "LS", "\"", ":", " ", "1">>

\* a.   (2 units)
SrcDot ==
    <<"a", ".">>

\* k: v.   (5 units)
SrcPairDot ==
    <<"k", ":", " ", "v", ".">>

\* &x a\n---\n&x b   (13 units)
SrcTwoDocs ==
    <<"&", "x", " ", "a", "\n", "-", "-", "-", "\n", "&", "x", " ", "b">>

\* a\n...   (5 units)
SrcDocEnd ==
    <<"a", "\n", ".", ".", ".">>

\* &x [&x a]   (9 units)
SrcDupAnchor ==
    <<"&", "x", " ", "[", "&", "x", " ", "a", "]">>

\* [&x a, &x b]   (12 units)
SrcDupAnchorSeq ==
    <<"[", "&", "x", " ", "a", ",", " ", "&", "x", " ", "b", "]">>

\* %YAML 1.2\n---\na   (15 units)
SrcDirective ==
    <<"%", "Y", "A", "M", "L", " ", "1", ".", "2", "\n", "-", "-", "-",
    "\n", "a">>

\* k:   (2 units)
SrcEmptyValue ==
    <<"k", ":">>

\* -   (1 units)
SrcEmptyItem ==
    <<"-">>

\* k: |\n a   (7 units)
SrcLiteral ==
    <<"k", ":", " ", "|", "\n", " ", "a">>

\* a: 1 # c   (8 units)
SrcComment ==
    <<"a", ":", " ", "1", " ", "#", " ", "c">>

\* n: !!str 123   (12 units)
SrcTagged ==
    <<"n", ":", " ", "!", "!", "s", "t", "r", " ", "1", "2", "3">>

\*    (0 units)
SrcEmpty ==
    <<>>

\* [z]   (3 units): the tree below places a node that is no item directly
\* in the flow sequence.
SrcFlowStray ==
    <<"[", "z", "]">>

\* : v   (3 units)
SrcEmptyKey ==
    <<":", " ", "v">>

\* - a\n-\n- b   (9 units)
SrcSeqGap ==
    <<"-", " ", "a", "\n", "-", "\n", "-", " ", "b">>

\* A node of a kind convertContentNode has no case for.
Stray(src, s, e) == U(src, "comment", s, e, <<>>, <<>>)

KeyValue(src, type, s, e, ks, ke, mid, vs, ve) ==
    Item(src, type, s, e, mid, <<Plain(src, ks, ke)>>, <<Plain(src, vs, ve)>>)

StructuralFixtures ==
    <<
       Single(SrcPair,
              U(SrcPair, "mapping", 0, 4,
                <<KeyValue(SrcPair, "mappingItem", 0, 4, 0, 1, 1, 3, 4)>>, <<>>)),

       Single(SrcSeq,
              U(SrcSeq, "sequence", 0, 10,
                <<U(SrcSeq, "sequenceItem", 0, 6, <<Plain(SrcSeq, 2, 6)>>, <<>>),
                  U(SrcSeq, "sequenceItem", 7, 10, <<Plain(SrcSeq, 9, 10)>>, <<>>)>>,
                <<>>)),

       Single(SrcAlias,
              U(SrcAlias, "mapping", 0, 13,
                <<Item(SrcAlias, "mappingItem", 0, 7, 1,
                       <<Plain(SrcAlias, 0, 1)>>,
                       <<WithAnchor(Plain(SrcAlias, 6, 7),
                                    Anchor(SrcAlias, 3, 5, <<"x">>))>>),
                  Item(SrcAlias, "mappingItem", 8, 13, 9,
                       <<Plain(SrcAlias, 8, 9)>>,
                       <<U(SrcAlias, "alias", 11, 13, <<>>, <<"x">>)>>)>>,
                <<>>)),

       Single(SrcFlowPair,
              U(SrcFlowPair, "flowSequence", 0, 6,
                <<KeyValue(SrcFlowPair, "flowMappingItem", 1, 5, 1, 2, 2, 4, 5)>>,
                <<>>)),

       Single(SrcFlowSeq,
              U(SrcFlowSeq, "flowSequence", 0, 9,
                <<U(SrcFlowSeq, "flowSequenceItem", 1, 2,
                    <<Plain(SrcFlowSeq, 1, 2)>>, <<>>),
                  U(SrcFlowSeq, "flowSequenceItem", 4, 8,
                    <<WithAnchor(Plain(SrcFlowSeq, 7, 8),
                                 Anchor(SrcFlowSeq, 4, 6, <<"y">>))>>, <<>>)>>,
                <<>>)),

       Single(SrcFlowMap,
              U(SrcFlowMap, "flowMapping", 0, 6,
                <<KeyValue(SrcFlowMap, "flowMappingItem", 1, 5, 1, 2, 2, 4, 5)>>,
                <<>>)),

       Fixture(SrcAstralComment,
               <<Doc(SrcAstralComment, 0, 0, 9,
                     <<U(SrcAstralComment, "mapping", 5, 9,
                         <<KeyValue(SrcAstralComment, "mappingItem",
                                    5, 9, 5, 6, 6, 8, 9)>>, <<>>)>>)>>,
               <<U(SrcAstralComment, "comment", 0, 4, <<>>, <<" ", "HS", "LS">>)>>),

       Single(SrcAstralKey,
              U(SrcAstralKey, "mapping", 0, 7,
                <<Item(SrcAstralKey, "mappingItem", 0, 7, 4,
                       <<U(SrcAstralKey, "quoteDouble", 0, 4, <<>>, <<"HS", "LS">>)>>,
                       <<Plain(SrcAstralKey, 6, 7)>>)>>,
                <<>>)),

       Single(SrcDot, Plain(SrcDot, 0, 2)),

       Single(SrcPairDot,
              U(SrcPairDot, "mapping", 0, 5,
                <<KeyValue(SrcPairDot, "mappingItem", 0, 5, 0, 1, 1, 3, 5)>>, <<>>)),

       Fixture(SrcTwoDocs,
               <<Doc(SrcTwoDocs, 0, 0, 5,
                     <<WithAnchor(Plain(SrcTwoDocs, 3, 4),
                                  Anchor(SrcTwoDocs, 0, 2, <<"x">>))>>),
                 Doc(SrcTwoDocs, 5, 8, 13,
                     <<WithAnchor(Plain(SrcTwoDocs, 12, 13),
                                  Anchor(SrcTwoDocs, 9, 11, <<"x">>))>>)>>,
               <<>>),

       Single(SrcDocEnd, Plain(SrcDocEnd, 0, 1)),

       Single(SrcDupAnchor,
              WithAnchor(
                  U(SrcDupAnchor, "flowSequence", 3, 9,
                    <<U(SrcDupAnchor, "flowSequenceItem", 4, 8,
                        <<WithAnchor(Plain(SrcDupAnchor, 7, 8),
                                     Anchor(SrcDupAnchor, 4, 6, <<"x">>))>>,
                        <<>>)>>, <<>>),
                  Anchor(SrcDupAnchor, 0, 2, <<"x">>))),

       Single(SrcDupAnchorSeq,
              U(SrcDupAnchorSeq, "flowSequence", 0, 12,
                <<U(SrcDupAnchorSeq, "flowSequenceItem", 1, 5,
                    <<WithAnchor(Plain(SrcDupAnchorSeq, 4, 5),
                                 Anchor(SrcDupAnchorSeq, 1, 3, <<"x">>))>>, <<>>),
                  U(SrcDupAnchorSeq, "flowSequenceItem", 7, 11,
                    <<WithAnchor(Plain(SrcDupAnchorSeq, 10, 11),
                                 Anchor(SrcDupAnchorSeq, 7, 9, <<"x">>))>>, <<>>)>>,
                <<>>)),

       Fixture(SrcDirective,
               <<U(SrcDirective, "document", 0, 15,
                   <<U(SrcDirective, "documentHead", 0, 13,
                       <<U(SrcDirective, "directive", 0, 9, <<>>, <<>>)>>, <<>>),
                     U(SrcDirective, "documentBody", 13, 15,
                       <<Plain(SrcDirective, 14, 15)>>, <<>>)>>, <<>>)>>,
               <<>>),

       Single(SrcEmptyValue,
              U(SrcEmptyValue, "mapping", 0, 2,
                <<Item(SrcEmptyValue, "mappingItem", 0, 2, 1,
                       <<Plain(SrcEmptyValue, 0, 1)>>, <<>>)>>, <<>>)),

       Single(SrcEmptyItem,
              U(SrcEmptyItem, "sequence", 0, 1,
                <<U(SrcEmptyItem, "sequenceItem", 0, 1, <<>>, <<>>)>>, <<>>)),

       Single(SrcLiteral,
              U(SrcLiteral, "mapping", 0, 7,
                <<Item(SrcLiteral, "mappingItem", 0, 7, 1,
                       <<Plain(SrcLiteral, 0, 1)>>,
                       <<U(SrcLiteral, "blockLiteral", 3, 7, <<>>, <<"a">>)>>)>>,
                <<>>)),

       Fixture(SrcComment,
               <<Doc(SrcComment, 0, 0, 8,
                     <<U(SrcComment, "mapping", 0, 4,
                         <<KeyValue(SrcComment, "mappingItem",
                                    0, 4, 0, 1, 1, 3, 4)>>, <<>>)>>)>>,
               <<U(SrcComment, "comment", 5, 8, <<>>, <<" ", "c">>)>>),

       Single(SrcTagged,
              U(SrcTagged, "mapping", 0, 12,
                <<Item(SrcTagged, "mappingItem", 0, 12, 1,
                       <<Plain(SrcTagged, 0, 1)>>,
                       <<WithTag(Plain(SrcTagged, 9, 12),
                                 Tag(SrcTagged, 3, 8, TagStr))>>)>>,
                <<>>)),

       \* The empty text: a stream without documents.
       Fixture(SrcEmpty, <<>>, <<>>),

       \* Trees with a node of an unsupported kind: as the content of a
       \* document, as a mapping key, as a mapping value, in a block sequence
       \* item, in a flow sequence item, and directly in a flow sequence.
       Single(<<"w">>, Stray(<<"w">>, 0, 1)),

       Single(<<"b", ":", " ", "1">>,
              U(<<"b", ":", " ", "1">>, "mapping", 0, 4,
                <<Item(<<"b", ":", " ", "1">>, "mappingItem", 0, 4, 1,
                       <<Stray(<<"b", ":", " ", "1">>, 0, 1)>>,
                       <<Plain(<<"b", ":", " ", "1">>, 3, 4)>>)>>, <<>>)),

       Single(<<"c", ":", " ", "2">>,
              U(<<"c", ":", " ", "2">>, "mapping", 0, 4,
                <<Item(<<"c", ":", " ", "2">>, "mappingItem", 0, 4, 1,
                       <<Plain(<<"c", ":", " ", "2">>, 0, 1)>>,
                       <<Stray(<<"c", ":", " ", "2">>, 3, 4)>>)>>, <<>>)),

       Single(<<"-", " ", "x">>,
              U(<<"-", " ", "x">>, "sequence", 0, 3,
                <<U(<<"-", " ", "x">>, "sequenceItem", 0, 3,
                    <<Stray(<<"-", " ", "x">>, 2, 3)>>, <<>>)>>, <<>>)),

       Single(<<"[", "y", "]">>,
              U(<<"[", "y", "]">>, "flowSequence", 0, 3,
                <<U(<<"[", "y", "]">>, "flowSequenceItem", 1, 2,
                    <<Stray(<<"[", "y", "]">>, 1, 2)>>, <<>>)>>, <<>>)),

       Single(SrcFlowStray,
              U(SrcFlowStray, "flowSequence", 0, 3,
                <<Stray(SrcFlowStray, 1, 2)>>, <<>>)),

       \* `? a\n: b`: an explicit key.
       Single(<<"?", " ", "a", "\n", ":", " ", "b">>,
              U(<<"?", " ", "a", "\n", ":", " ", "b">>, "mapping", 0, 7,
                <<Item(<<"?", " ", "a", "\n", ":", " ", "b">>, "mappingItem",
                       0, 7, 4,
                       <<Plain(<<"?", " ", "a", "\n", ":", " ", "b">>, 2, 3)>>,
                       <<Plain(<<"?", " ", "a", "\n", ":", " ", "b">>, 6, 7)>>)>>,
                <<>>)),

       \* `: v`: a pair without a key.
       Single(SrcEmptyKey,
              U(SrcEmptyKey, "mapping", 0, 3,
                <<Item(SrcEmptyKey, "mappingItem", 0, 3, 0,
                       <<>>, <<Plain(SrcEmptyKey, 2, 3)>>)>>, <<>>)),

       \* `- a\n-\n- b`: an empty item between two items.
       Single(SrcSeqGap,
              U(SrcSeqGap, "sequence", 0, 9,
                <<U(SrcSeqGap, "sequenceItem", 0, 3, <<Plain(SrcSeqGap, 2, 3)>>, <<>>),
                  U(SrcSeqGap, "sequenceItem", 4, 5, <<>>, <<>>),
                  U(SrcSeqGap, "sequenceItem", 6, 9, <<Plain(SrcSeqGap, 8, 9)>>, <<>>)>>,
                <<>>))
    >>

\* The inputs: the structural ones, each plain text, each scalar of
\* TaggedScalars without a tag, and each with each tag of TagTable.
Fixtures ==
    StructuralFixtures
        \o [i \in 1..Len(PlainTexts) |-> PlainDoc(PlainTexts[i])]
        \o [i \in 1..Len(TaggedScalars) |-> UntaggedDoc(TaggedScalars[i])]
        \o [k \in 1..(Len(TagTable) * Len(TaggedScalars)) |->
               TaggedDoc(TagTable[((k - 1) % Len(TagTable)) + 1],
                         TaggedScalars[((k - 1) \div Len(TagTable)) + 1])]

\* ------------------------------------------------------------ convertRoot

VARIABLES
    code,              \* the source text given to convertRoot
    root,              \* the upstream tree given to convertRoot
    pc,                \* where convertRoot is: start, walk, scan, done, error
    comments,          \* Program.comments
    stripCommentCode,  \* the text with the comments blanked
    nodes,             \* the output nodes; nodes[1] is the Program
    tokens,            \* Program.tokens
    log,               \* the anchors converted so far, in order
    docIndex,          \* how many documents of the stream are converted
    stripTokensCode,   \* the text with comments and walk tokens blanked
    index,             \* the gap-filling scan: offset, line and column
    line,
    column,
    cache,             \* per node: the `value` variable its getter closes over
    reads,             \* per node: what each read of .value returned
    computes,          \* per node: how often the getter computed the value
    run,               \* which call of convertRoot on this input: 1 or 2
    first              \* what the first call returned, once there is a second

vars == <<code, root, pc, comments, stripCommentCode, nodes, tokens, log,
          docIndex, stripTokensCode, index, line, column, cache, reads,
          computes, run, first>>

Init ==
    /\ \E i \in 1..Len(Fixtures) :
          /\ code = Fixtures[i].code
          /\ root = Fixtures[i].root
    /\ pc = "start"
    /\ comments = <<>>
    /\ stripCommentCode = <<>>
    /\ nodes = <<>>
    /\ tokens = <<>>
    /\ log = <<>>
    /\ docIndex = 0
    /\ stripTokensCode = <<>>
    /\ index = 0
    /\ line = 1
    /\ column = 0
    /\ cache = <<>>
    /\ reads = <<>>
    /\ computes = <<>>
    /\ run = 1
    /\ first = <<>>

Comment(n) ==
    [type |-> "Block", value |-> n.value,
     range |-> getConvertLocation(n).range, loc |-> getConvertLocation(n).loc]

Ranges(items) == [i \in 1..Len(items) |-> items[i].range]

\* The text the walk is given: the source with each comment range blanked.
StripComments(text, cs) == StripRanges(text, Ranges(cs))

\* The text the scan reads: the walk's text with each token range blanked.
StripTokens(text, ts) == StripRanges(text, Ranges(ts))

\* A text left over from an earlier call would be `tokens`.
LeftoverTokens == tokens

\* const tokens: Token[] = []
FreshTokens == <<>>

\* convertRoot up to the loop over the documents.
Start ==
    /\ pc = "start"
    /\ comments' = [i \in 1..Len(root.comments) |-> Comment(root.comments[i])]
    /\ stripCommentCode' = StripComments(code, comments')
    /\ nodes' = <<[type |-> "Program", body |-> <<>>, sourceType |-> "module",
                   parent |-> 0,
                   range |-> getConvertLocation(root).range,
                   loc |-> getConvertLocation(root).loc]>>
    /\ tokens' = FreshTokens
    /\ log' = <<>>
    /\ docIndex' = 0
    /\ pc' = "walk"
    /\ UNCHANGED <<code, root, run, first, stripTokensCode, index, line, column,
                   cache, reads, computes>>

\* ast.body.push(<the document>): the walk's record becomes the state.  An
\* error thrown during the walk leaves convertRoot: nothing is returned.
PushDocument(st) ==
    IF st.err
    THEN /\ pc' = "error"
         /\ UNCHANGED <<nodes, tokens, log>>
    ELSE /\ nodes' = [st.nodes EXCEPT ![1].body = Append(@, st.ret)]
         /\ tokens' = st.tokens
         /\ log' = st.log
         /\ pc' = "walk"

\* One round of the loop: ast.body.push(convertDocument(n, ...)).
ConvertNextDocument ==
    /\ pc = "walk"
    /\ docIndex < Len(root.children)
    /\ PushDocument(convertDocument(
                        [nodes |-> nodes, tokens |-> tokens, log |-> log,
                         err |-> FALSE, ret |-> 0, anchor |-> 0, tag |-> 0],
                        root.children[docIndex + 1], stripCommentCode, 1))
    /\ docIndex' = docIndex + 1
    /\ UNCHANGED <<code, root, run, first, comments, stripCommentCode, stripTokensCode,
                   index, line, column, cache, reads, computes>>

\* After the loop: blank the walk's tokens and start the scan.
StartScan ==
    /\ pc = "walk"
    /\ docIndex = Len(root.children)
    /\ stripTokensCode' = StripTokens(stripCommentCode, tokens)
    /\ index' = 0
    /\ line' = 1
    /\ column' = 0
    /\ pc' = "scan"
    /\ UNCHANGED <<code, root, run, first, comments, stripCommentCode, nodes, tokens, log,
                   docIndex, cache, reads, computes>>

\* Sensitivity of C15: a scan that does not know the comma.
isPunctuatorNoComma(c) == c \in {":", "-", "{", "}", "[", "]", "?"}

isPunctuator(c) == c \in {":", "-", ",", "{", "}", "[", "]", "?"}

\* One round of the scan over stripTokensCode.
ScanStep ==
    /\ pc = "scan"
    /\ index < Len(stripTokensCode)
    /\ LET c == stripTokensCode[index + 1]
       IN  IF c = "\n"
           THEN /\ line' = line + 1
                /\ column' = 0
                /\ tokens' = tokens
           ELSE /\ line' = line
                /\ column' = column + 1
                /\ tokens' =
                      IF ~IsSpace(c) /\ isPunctuator(c)
                      THEN addToken(tokens, "Punctuator",
                                    [range |-> <<index, index + 1>>,
                                     loc |-> [start |-> [line |-> line,
                                                         column |-> column],
                                              end |-> [line |-> line,
                                                       column |-> column + 1]]],
                                    stripTokensCode)
                      ELSE tokens
    /\ index' = index + 1
    /\ UNCHANGED <<code, root, run, first, pc, comments, stripCommentCode, nodes, log,
                   docIndex, stripTokensCode, cache, reads, computes>>

\* tokens.sort((a, b) => a.range[0] - b.range[0]): a stable sort.
RECURSIVE InsertToken(_, _)
InsertToken(sorted, t) ==
    IF sorted = <<>> THEN <<t>>
    ELSE IF sorted[Len(sorted)].range[1] <= t.range[1] THEN Append(sorted, t)
    ELSE Append(InsertToken(SubSeq(sorted, 1, Len(sorted) - 1), t),
                sorted[Len(sorted)])

RECURSIVE SortTokens(_)
SortTokens(ts) ==
    IF ts = <<>> THEN <<>>
    ELSE InsertToken(SortTokens(SubSeq(ts, 1, Len(ts) - 1)), ts[Len(ts)])

\* The end of the scan: sort the tokens and return the Program.
Finish ==
    /\ pc = "scan"
    /\ index = Len(stripTokensCode)
    /\ tokens' = SortTokens(tokens)
    /\ cache' = [i \in 1..Len(nodes) |-> Undefined]
    /\ reads' = [i \in 1..Len(nodes) |-> <<>>]
    /\ computes' = [i \in 1..Len(nodes) |-> 0]
    /\ pc' = "done"
    /\ UNCHANGED <<code, root, run, first, comments, stripCommentCode, nodes, log,
                   docIndex, stripTokensCode, index, line, column>>

\* ----------------------------------------------------- the value property

IsScalar(n) == nodes[n].type = "YAMLScalar"
HasGetter(n) ==
    IsScalar(n) /\ nodes[n].style \in {"plain", "double-quoted", "single-quoted"}

\* Sensitivity of C6: a cache test on truthiness, `if (value) return value`.
IsCachedTruthy(v) == Truthy(v)

\* if (value !== undefined) return value
IsCached(v) == v # Undefined

\* get value(): what a read returns, what the closure then holds, and
\* whether the value was computed.
GetValue(cached, g) ==
    IF IsCached(cached)
    THEN [ret |-> cached, cache |-> cached, computed |-> FALSE]
    ELSE IF g.tagged
         THEN LET v == getTaggedValue(g.tagValue, g.text, g.str)
              IN  [ret |-> v, cache |-> v, computed |-> TRUE]
    ELSE [ret |-> g.untagged, cache |-> g.untagged, computed |-> TRUE]

\* A consumer reads node.value of a scalar of the returned tree.
ReadValue(n) ==
    /\ pc = "done"
    /\ IsScalar(n)
    /\ Len(reads[n]) < MaxReads
    /\ IF HasGetter(n)
       THEN LET r == GetValue(cache[n], nodes[n].getter)
            IN  /\ cache' = [cache EXCEPT ![n] = r.cache]
                /\ reads' = [reads EXCEPT ![n] = Append(@, r.ret)]
                /\ computes' = [computes EXCEPT ![n] =
                                    IF r.computed THEN @ + 1 ELSE @]
       ELSE /\ reads' = [reads EXCEPT ![n] = Append(@, nodes[n].value)]
            /\ UNCHANGED <<cache, computes>>
    /\ UNCHANGED <<code, root, run, first, pc, comments, stripCommentCode, nodes, tokens,
                   log, docIndex, stripTokensCode, index, line, column>>

\* convertRoot is called once more with the same tree and text; the Program
\* of the first call is kept for comparison.
CallAgain ==
    /\ pc = "done"
    /\ run = 1
    /\ first' = [nodes |-> nodes, tokens |-> tokens, root |-> root,
                 code |-> code]
    /\ run' = 2
    /\ pc' = "start"
    /\ cache' = <<>>
    /\ reads' = <<>>
    /\ computes' = <<>>
    /\ UNCHANGED <<code, root, comments, stripCommentCode, nodes, tokens, log,
                   docIndex, stripTokensCode, index, line, column>>

Next ==
    \/ Start
    \/ ConvertNextDocument
    \/ StartScan
    \/ ScanStep
    \/ Finish
    \/ \E n \in 1..Len(nodes) : ReadValue(n)
    \/ CallAgain

Spec == Init /\ [][Next]_vars

\* ================================================================ properties

Done == pc = "done"

NodeIds == 1..Len(nodes)
TokenIds == 1..Len(tokens)

\* source.slice(t.range[0], t.range[1]) of the original text.
SourceSlice(t) == Slice(code, t.range[1], t.range[2])

\* The primary token of a scalar: the one with the scalar's range.
HasTokenOfType(n, type) ==
    \E i \in TokenIds : tokens[i].range = nodes[n].range /\ tokens[i].type = type

IsPlain(n) == IsScalar(n) /\ nodes[n].style = "plain"
IsQuoted(n) ==
    IsScalar(n) /\ nodes[n].style \in {"double-quoted", "single-quoted"}
IsBlock(n) == IsScalar(n) /\ nodes[n].style \in {"literal", "folded"}

\* ---------------------------------------------------------------------- C1
\* C1: after convertRoot returns, every token of Program.tokens, emitted by
\* the walk or by the gap-filling scan, has value = source.slice(range) of
\* the original text, also when a comment or a token holds a character of
\* two offset units.
C1_TokenValueIsSourceSlice ==
    Done => \A i \in TokenIds : tokens[i].value = SourceSlice(tokens[i])

\* C1, the failing input `# <astral>\na: 1`: blanking the comment shortens
\* the walk's text by one unit, so the token at [5,6] reads ":" instead of
\* "a" and the token at [8,9] reads "".
C1_AstralCommentShiftsValue ==
    /\ Done
    /\ code = SrcAstralComment
    /\ \E i \in TokenIds :
          /\ tokens[i].range = <<5, 6>>
          /\ tokens[i].value = <<":">>
          /\ SourceSlice(tokens[i]) = <<"a">>
    /\ \E i \in TokenIds :
          /\ tokens[i].range = <<8, 9>>
          /\ tokens[i].value = <<>>

\* ---------------------------------------------------------------------- C2
\* C2: after convertRoot returns, consecutive tokens a, b of Program.tokens
\* satisfy a.range[0] < b.range[0] and a.range[1] <= b.range[0]: strictly
\* ordered by start offset and pairwise disjoint.
C2_TokensOrderedDisjoint ==
    Done =>
        \A i \in 1..(Len(tokens) - 1) :
            /\ tokens[i].range[1] < tokens[i + 1].range[1]
            /\ tokens[i].range[2] <= tokens[i + 1].range[1]

\* C2, the failing input `"<astral>": 1`: the scan's Punctuator for `:` is
\* placed at [3,4], inside the String token [0,4] the walk emitted.
C2_PunctuatorInsideString ==
    /\ Done
    /\ code = SrcAstralKey
    /\ \E i \in 1..(Len(tokens) - 1) :
          /\ tokens[i].type = "String"
          /\ tokens[i].range = <<0, 4>>
          /\ tokens[i + 1].type = "Punctuator"
          /\ tokens[i + 1].range = <<3, 4>>

\* ---------------------------------------------------------------------- C3
\* The node p holds n in one of its fields body, directives, content, pairs,
\* key, value, entries, anchor, tag.
InSeq(x, seq) == \E i \in 1..Len(seq) : seq[i] = x

Owns(p, n) ==
    CASE nodes[p].type = "Program" -> InSeq(n, nodes[p].body)
      [] nodes[p].type = "YAMLDocument" ->
            InSeq(n, nodes[p].directives) \/ nodes[p].content = n
      [] nodes[p].type = "YAMLMapping" ->
            InSeq(n, nodes[p].pairs) \/ nodes[p].anchor = n \/ nodes[p].tag = n
      [] nodes[p].type = "YAMLPair" -> nodes[p].key = n \/ nodes[p].value = n
      [] nodes[p].type = "YAMLSequence" ->
            InSeq(n, nodes[p].entries) \/ nodes[p].anchor = n \/ nodes[p].tag = n
      [] nodes[p].type \in {"YAMLScalar", "YAMLAlias"} ->
            nodes[p].anchor = n \/ nodes[p].tag = n
      [] OTHER -> FALSE

\* C3: in the returned tree the Program has parent null and every other node
\* has one owner, the node holding it in a field, and that owner is its
\* parent; this includes the mapping built for a flow mapping item of a flow
\* sequence.
C3_ParentIsOwner ==
    Done =>
        /\ nodes[1].parent = 0
        /\ \A n \in 2..Len(nodes) :
              /\ \E p \in NodeIds : Owns(p, n)
              /\ \A p \in NodeIds : Owns(p, n) => nodes[n].parent = p

\* C3, the failing input `[a: 1]`: the flow sequence (node 3) holds the
\* single-pair mapping (node 4) among its entries, and the mapping's parent
\* is the document (node 2), the parent of the sequence.
C3_SyntheticMappingParent ==
    /\ Done
    /\ code = SrcFlowPair
    /\ nodes[3].type = "YAMLSequence"
    /\ nodes[4].type = "YAMLMapping"
    /\ Owns(3, 4)
    /\ nodes[4].parent = 2
    /\ nodes[3].parent = 2

\* ---------------------------------------------------------------------- C4
Within(inner, outer) == outer[1] <= inner[1] /\ inner[2] <= outer[2]

\* C4: in the returned tree the range of every node but the Program lies
\* within the range of its parent, Anchor and Tag nodes within the content
\* node they are attached to included.
C4_RangeWithinParent ==
    Done =>
        \A n \in 2..Len(nodes) :
            Within(nodes[n].range, nodes[nodes[n].parent].range)

\* C4, the failing input `k: &x v\nr: *x`: the Anchor spans [3,5], the
\* scalar it is attached to, its parent, spans [6,7].
C4_AnchorBeforeItsNode ==
    /\ Done
    /\ code = SrcAlias
    /\ \E a \in NodeIds :
          /\ nodes[a].type = "YAMLAnchor"
          /\ nodes[a].range = <<3, 5>>
          /\ nodes[nodes[a].parent].type = "YAMLScalar"
          /\ nodes[nodes[a].parent].anchor = a
          /\ nodes[nodes[a].parent].range = <<6, 7>>

\* ---------------------------------------------------------------------- C5
\* The document a node lies in, found by following parent (0: none).
RECURSIVE DocOf(_)
DocOf(n) ==
    IF n = 0 THEN 0
    ELSE IF nodes[n].type = "YAMLDocument" THEN n
    ELSE DocOf(nodes[n].parent)

\* The positions in the conversion order of the anchors named x of D.
ConvertedIn(D, x) ==
    {i \in 1..Len(log) : log[i].name = x /\ DocOf(log[i].id) = D}

LastOf(S) == CHOOSE i \in S : \A j \in S : j <= i

ConvertedDocuments ==
    {D \in NodeIds : nodes[D].type = "YAMLDocument" /\ InSeq(D, nodes[1].body)}

\* C5: once a Document D is converted, D.anchors[x] is the Anchor named x
\* that was converted last while walking D, a name without an Anchor in D has
\* no entry, and no entry of D.anchors is an Anchor of another document.
C5_AnchorsLastConverted ==
    \A D \in ConvertedDocuments :
        /\ \A x \in {log[i].name : i \in 1..Len(log)} \cup DOMAIN nodes[D].anchors :
              IF ConvertedIn(D, x) = {}
              THEN x \notin DOMAIN nodes[D].anchors
              ELSE /\ x \in DOMAIN nodes[D].anchors
                   /\ nodes[D].anchors[x] = log[LastOf(ConvertedIn(D, x))].id
        /\ \A x \in DOMAIN nodes[D].anchors :
              /\ nodes[nodes[D].anchors[x]].type = "YAMLAnchor"
              /\ DocOf(nodes[D].anchors[x]) = D

\* C5: a converted document with two anchors of one name, registered under
\* the one converted later.
C5_DuplicateAnchorOverwritten ==
    \E D \in ConvertedDocuments, a, b \in NodeIds :
        /\ a < b
        /\ nodes[a].type = "YAMLAnchor" /\ nodes[b].type = "YAMLAnchor"
        /\ nodes[a].name = nodes[b].name
        /\ DocOf(a) = D /\ DocOf(b) = D
        /\ nodes[D].anchors[nodes[b].name] = b

\* ---------------------------------------------------------------------- C6
\* C6: for a plain, double-quoted or single-quoted scalar the value is
\* computed once, on the first read, and never again; every read returns
\* what the first read returned, whatever that value is.
C6_ValueComputedOnce ==
    Done =>
        \A n \in NodeIds :
            HasGetter(n) =>
                /\ computes[n] = (IF reads[n] = <<>> THEN 0 ELSE 1)
                /\ \A i \in 1..Len(reads[n]) : reads[n][i] = reads[n][1]

\* C6: a scalar read twice whose value, null or false, is falsy.
C6_FalsyValueReadTwice ==
    /\ Done
    /\ \E n \in NodeIds :
          /\ HasGetter(n)
          /\ Len(reads[n]) >= 2
          /\ computes[n] = 1
          /\ reads[n][1] \in {JsNull, JsBool(FALSE)}
          /\ reads[n][2] = reads[n][1]

\* ---------------------------------------------------------------------- C7
\* The token type C7 gives a plain scalar of text s.
TypeByText(s) ==
    IF isTrue(s) \/ isFalse(s) THEN "Boolean"
    ELSE IF isNull(s) THEN "Null"
    ELSE IF needParse(s) THEN "Numeric"
    ELSE "Identifier"

\* C7: the token of a plain scalar has the type its text alone decides:
\* Boolean for a true/false literal, Null for a null literal, Numeric for any
\* other text of a numeric form, Identifier otherwise; a tag changes nothing.
C7_PlainTokenTypeByText ==
    Done =>
        \A n \in NodeIds :
            IsPlain(n) => HasTokenOfType(n, TypeByText(nodes[n].strValue))

\* C7, the failing input `0`: a decimal integer whose token is an Identifier.
C7_ZeroIsIdentifier ==
    /\ Done
    /\ code = <<"0", "\n">>
    /\ \E n \in NodeIds :
          /\ IsPlain(n)
          /\ nodes[n].strValue = <<"0">>
          /\ needParse(nodes[n].strValue)
          /\ HasTokenOfType(n, "Identifier")
          /\ ~HasTokenOfType(n, "Numeric")

\* ---------------------------------------------------------------------- C8
\* The value C8 gives an untagged plain scalar of text s, its checks in order.
UntaggedPlainValue(s) ==
    IF s \in {<<"t", "r", "u", "e">>, <<"T", "r", "u", "e">>, <<"T", "R", "U", "E">>}
    THEN JsBool(TRUE)
    ELSE IF s \in {<<"f", "a", "l", "s", "e">>, <<"F", "a", "l", "s", "e">>,
                   <<"F", "A", "L", "S", "E">>}
    THEN JsBool(FALSE)
    ELSE IF s \in {<<"n", "u", "l", "l">>, <<"N", "u", "l", "l">>,
                   <<"N", "U", "L", "L">>, <<"~">>}
    THEN JsNull
    ELSE IF needParse(s)
    THEN IF Truthy(YamlParse(s)) THEN YamlParse(s) ELSE JsStr(s)
    ELSE JsStr(s)

\* C8: every read of an untagged plain scalar returns true, false or null
\* for the literals, the parser's result for a text of a numeric form when
\* that result is truthy and the raw string when it is falsy, and the raw
\* string for any other text.
C8_UntaggedPlainValue ==
    Done =>
        \A n \in NodeIds :
            IsPlain(n) /\ nodes[n].tag = 0 =>
                \A i \in 1..Len(reads[n]) :
                    reads[n][i] = UntaggedPlainValue(nodes[n].strValue)

\* C8: the text `0`, of a numeric form with a falsy result, read as the
\* string "0".
C8_FalsyNumberReadAsString ==
    /\ Done
    /\ \E n \in NodeIds :
          /\ IsPlain(n) /\ nodes[n].tag = 0
          /\ nodes[n].strValue = <<"0">>
          /\ ~Truthy(YamlParse(nodes[n].strValue))
          /\ reads[n] # <<>>
          /\ reads[n][1] = JsStr(<<"0">>)

\* ---------------------------------------------------------------------- C9
\* C9: every read of an untagged double-quoted or single-quoted scalar
\* returns strValue as a string, whatever literal the content looks like, and
\* the scalar's token is a String.
C9_UntaggedQuotedValue ==
    Done =>
        \A n \in NodeIds :
            IsQuoted(n) /\ nodes[n].tag = 0 =>
                /\ HasTokenOfType(n, "String")
                /\ \A i \in 1..Len(reads[n]) :
                      reads[n][i] = JsStr(nodes[n].strValue)

\* C9: the single-quoted 'true', read as the string "true".
C9_QuotedTrueIsString ==
    /\ Done
    /\ \E n \in NodeIds :
          /\ IsQuoted(n) /\ nodes[n].tag = 0
          /\ nodes[n].strValue = <<"t", "r", "u", "e">>
          /\ HasTokenOfType(n, "String")
          /\ reads[n] # <<>>
          /\ reads[n][1] = JsStr(<<"t", "r", "u", "e">>)

\* --------------------------------------------------------------------- C10
\* The text of a scalar node: its decoded content, strValue or, for a
\* literal or folded scalar, the content the node stores.
ContentOf(n) == IF IsBlock(n) THEN nodes[n].value.s ELSE nodes[n].strValue

\* The text the external parser is given: the decoded content of a plain
\* scalar, the text as written of any other.
WrittenOf(n) ==
    IF IsPlain(n) THEN nodes[n].strValue
    ELSE Slice(code, nodes[n].range[1], nodes[n].range[2])

\* The value C10 gives a scalar with tag URI `uri`.
ValueByTag(uri, written, content) ==
    CASE uri = TagStr -> JsStr(content)
      [] uri = TagInt /\ ReTagInt(content) -> JsNum(ParseDigits(content, 10), 0)
      [] uri = TagBool /\ isTrue(content) -> JsBool(TRUE)
      [] uri = TagBool /\ isFalse(content) -> JsBool(FALSE)
      [] uri = TagNull /\ (content = <<>> \/ isNull(content)) -> JsNull
      [] OTHER -> YamlParseDocument(TagText(uri) \o <<" ">> \o written)

\* C10: every read of a tagged scalar of any of the five styles returns the
\* value resolved against the tag: str, int, bool and null as their checks
\* say, in any other case the external parser's result for the tag text and
\* the node's text.
C10_TaggedValueByTag ==
    Done =>
        \A n \in NodeIds :
            IsScalar(n) /\ nodes[n].tag # 0 =>
                \A i \in 1..Len(reads[n]) :
                    reads[n][i] = ValueByTag(nodes[nodes[n].tag].tag,
                                             WrittenOf(n), ContentOf(n))

\* C10, the failing input `!!int |-\n 12`: a literal scalar tagged int whose
\* value is the string "12".
C10_TaggedLiteralIsString ==
    /\ Done
    /\ \E n \in NodeIds :
          /\ IsBlock(n)
          /\ nodes[n].style = "literal"
          /\ nodes[n].tag # 0
          /\ nodes[nodes[n].tag].tag = TagInt
          /\ ContentOf(n) = <<"1", "2">>
          /\ reads[n] # <<>>
          /\ reads[n][1] = JsStr(<<"1", "2">>)

\* --------------------------------------------------------------------- C12
\* The kinds convertContentNode has a case for.
DispatchKinds ==
    {"mapping", "flowMapping", "sequence", "flowSequence", "plain",
     "quoteDouble", "quoteSingle", "blockLiteral", "blockFolded", "alias"}

\* The upstream content node, or the body of an item or of a key or value
\* (<<>> when empty), holds a node of a kind outside the dispatch table at
\* one of the positions the walk reaches.
RECURSIVE ReachesUnsupported(_)
BodyReachesUnsupported(children) ==
    children # <<>> /\ ReachesUnsupported(children[1])

PairReachesUnsupported(item) ==
    \/ BodyReachesUnsupported(item.children[1].children)
    \/ BodyReachesUnsupported(item.children[2].children)

ReachesUnsupported(node) ==
    CASE node.type \notin DispatchKinds -> TRUE
      [] node.type \in {"mapping", "flowMapping"} ->
            \E i \in 1..Len(node.children) :
                PairReachesUnsupported(node.children[i])
      [] node.type = "sequence" ->
            \E i \in 1..Len(node.children) :
                BodyReachesUnsupported(node.children[i].children)
      [] node.type = "flowSequence" ->
            \E i \in 1..Len(node.children) :
                CASE node.children[i].type = "flowSequenceItem" ->
                        BodyReachesUnsupported(node.children[i].children)
                  [] node.children[i].type = "flowMappingItem" ->
                        PairReachesUnsupported(node.children[i])
                  [] OTHER -> TRUE
      [] OTHER -> FALSE

StreamReachesUnsupported ==
    \E d \in 1..Len(root.children) :
        BodyReachesUnsupported(root.children[d].children[2].children)

\* C12: when the tree holds a node of a kind outside the dispatch table as
\* document content, mapping key or value, sequence item or direct child of
\* a flow sequence, convertRoot returns no Program.
C12_UnsupportedNodeFails ==
    Done => ~StreamReachesUnsupported

\* C12, the failing input: the text `[z]` with a flow sequence whose child
\* is a node of kind comment.  convertRoot returns a Program whose sequence
\* has no entries.
C12_StrayFlowChildDropped ==
    /\ Done
    /\ code = SrcFlowStray
    /\ StreamReachesUnsupported
    /\ nodes[3].type = "YAMLSequence"
    /\ nodes[3].entries = <<>>

C14_MarkerIsLiteral ==
    Done =>
        \A i \in TokenIds :
            tokens[i].type = "Marker" =>
                /\ tokens[i].value \in {<<"-", "-", "-">>, <<".", ".", ".">>}
                /\ tokens[i].range[2] - tokens[i].range[1] = 3
                /\ tokens[i].loc.start.column >= 0

\* C14, the failing input `a.`: the document ends with the `.` of its
\* scalar and gets a Marker with range [-1,2], value "." and column -1.
C14_MarkerForTrailingDot ==
    /\ Done
    /\ code = SrcDot
    /\ \E i \in TokenIds :
          /\ tokens[i].type = "Marker"
          /\ tokens[i].range = <<-1, 2>>
          /\ tokens[i].value = <<".">>
          /\ tokens[i].loc.start.column = -1

\* --------------------------------------------------------------------- C15
PunctuatorChars == {":", "-", ",", "{", "}", "[", "]", "?"}

\* The offsets below `upto` at which the working text holds a punctuator.
GapOffsets(upto) ==
    {i \in 0..(upto - 1) : stripTokensCode[i + 1] \in PunctuatorChars}

\* The j-th smallest element of a set of numbers.
Nth(S, j) == CHOOSE x \in S : Cardinality({y \in S : y < x}) = j - 1

\* The offset at which the line of offset i starts.
LineStart(i) ==
    LET nl == {j \in 1..i : stripTokensCode[j] = "\n"}
    IN  IF nl = {} THEN 0 ELSE CHOOSE j \in nl : \A k \in nl : k <= j

\* The token C15 describes for offset i of the working text.
GapToken(i) ==
    LET ln == 1 + Cardinality({j \in 1..i : stripTokensCode[j] = "\n"})
        col == i - LineStart(i)
    IN  [type |-> "Punctuator",
         value |-> <<stripTokensCode[i + 1]>>,
         range |-> <<i, i + 1>>,
         loc |-> [start |-> [line |-> ln, column |-> col],
                  end |-> [line |-> ln, column |-> col + 1]]]

\* C15: while the scan is at offset `index`, the tokens are the walk's
\* tokens (those whose blanking gives the working text) followed by exactly
\* one Punctuator [i, i+1] for every offset i < index that holds one of
\* : - , { } [ ] ?, in order, with line 1 + the newlines before i and the
\* 0-based column in that line; after the sort each of them is there once.
C15_ScanEmitsPunctuators ==
    /\ pc = "scan" =>
          LET k == Cardinality(GapOffsets(index))
              w == Len(tokens) - k
          IN  /\ w >= 0
              /\ StripTokens(stripCommentCode, SubSeq(tokens, 1, w))
                    = stripTokensCode
              /\ \A j \in 1..k :
                    tokens[w + j] = GapToken(Nth(GapOffsets(index), j))
    /\ Done =>
          \A i \in GapOffsets(Len(stripTokensCode)) :
              Cardinality({k \in TokenIds : tokens[k] = GapToken(i)}) = 1

\* C15: the scan of `[x, &y z]` is over: Punctuators for `[`, `,` and `]`
\* and none for the blanked rest.
C15_ScanOfFlowSequence ==
    /\ pc = "scan"
    /\ index = Len(stripTokensCode)
    /\ code = SrcFlowSeq
    /\ GapOffsets(index) = {0, 2, 8}
    /\ tokens[Len(tokens)] = GapToken(8)
    /\ tokens[Len(tokens) - 1].value = <<",">>

\* C15: a Punctuator on the second line of `k: &x v\nr: *x`, at line 2,
\* column 1.
C15_SecondLineColumn ==
    /\ pc = "scan"
    /\ index = Len(stripTokensCode)
    /\ code = SrcAlias
    /\ tokens[Len(tokens)].range = <<9, 10>>
    /\ tokens[Len(tokens)].loc.start = [line |-> 2, column |-> 1]

\* --------------------------------------------------------------------- C16
RECURSIVE UpstreamNodes(_)
\* The node n of the upstream tree and all nodes below it.
UpstreamNodes(n) ==
    {n} \cup UNION {UpstreamNodes(n.children[i]) : i \in 1..Len(n.children)}

UpstreamOfRoot ==
    UNION {UpstreamNodes(root.children[i]) : i \in 1..Len(root.children)}

UpstreamRange(u) == <<u.position.start.offset, u.position.end.offset>>

ContentTypes == {"YAMLMapping", "YAMLSequence", "YAMLScalar", "YAMLAlias"}

\* The output type of an upstream content kind.
TypeOfKind(k) ==
    CASE k \in {"mapping", "flowMapping"} -> "YAMLMapping"
      [] k \in {"sequence", "flowSequence"} -> "YAMLSequence"
      [] k = "alias" -> "YAMLAlias"
      [] OTHER -> "YAMLScalar"

\* The children of an upstream sequence that contribute an entry.
Contributing(u) ==
    SelectSeq(u.children,
              LAMBDA c :
                  \/ c.type \in {"sequenceItem", "flowSequenceItem"}
                        /\ Len(c.children) > 0
                  \/ c.type = "flowMappingItem" /\ u.type = "flowSequence")

\* The entry e of the output is what the upstream child c contributes.
EntryOf(e, c) ==
    IF c.type = "flowMappingItem"
    THEN /\ nodes[e].type = "YAMLMapping"
         /\ nodes[e].style = "block"
         /\ nodes[e].range = UpstreamRange(c)
         /\ Len(nodes[e].pairs) = 1
         /\ nodes[nodes[e].pairs[1]].type = "YAMLPair"
         /\ nodes[nodes[e].pairs[1]].range = UpstreamRange(c)
    ELSE /\ nodes[e].type = TypeOfKind(c.children[1].type)
         /\ nodes[e].range = UpstreamRange(c.children[1])

\* The output sequence n is the conversion of the upstream sequence u.
SequenceOf(n, u) ==
    /\ nodes[n].type = "YAMLSequence"
    /\ nodes[n].style = (IF u.type = "sequence" THEN "block" ELSE "flow")
    /\ nodes[n].range = UpstreamRange(u)

IsUpstreamSequence(u) == u.type \in {"sequence", "flowSequence"}
IsUpstreamPair(u) == u.type \in {"mappingItem", "flowMappingItem"}

\* C16: in the returned tree every sequence is the conversion of an upstream
\* sequence and every upstream sequence has one; its entries are content
\* nodes, never a Pair, one per item with a body (the conversion of the
\* item's first child) and one per flow mapping item (a block mapping with
\* the item's range and one pair), in upstream order, none for an empty
\* item; and a Pair has a null key or value exactly when the upstream item
\* has an empty key or value.
C16_EntriesAreContent ==
    Done =>
        /\ \A n \in NodeIds :
              nodes[n].type = "YAMLSequence" =>
                  /\ \A j \in 1..Len(nodes[n].entries) :
                        nodes[nodes[n].entries[j]].type \in ContentTypes
                  /\ \E u \in UpstreamOfRoot :
                        IsUpstreamSequence(u) /\ SequenceOf(n, u)
        /\ \A u \in UpstreamOfRoot :
              IsUpstreamSequence(u) =>
                  /\ \E n \in NodeIds : SequenceOf(n, u)
                  /\ \A n \in NodeIds :
                        SequenceOf(n, u) =>
                            /\ Len(nodes[n].entries) = Len(Contributing(u))
                            /\ \A j \in 1..Len(nodes[n].entries) :
                                  EntryOf(nodes[n].entries[j], Contributing(u)[j])
        /\ \A u \in UpstreamOfRoot :
              IsUpstreamPair(u) =>
                  /\ \E p \in NodeIds :
                        /\ nodes[p].type = "YAMLPair"
                        /\ nodes[p].range = UpstreamRange(u)
                  /\ \A p \in NodeIds :
                        (nodes[p].type = "YAMLPair"
                            /\ nodes[p].range = UpstreamRange(u)) =>
                            /\ (nodes[p].key = 0) <=> (u.children[1].children = <<>>)
                            /\ (nodes[p].value = 0) <=> (u.children[2].children = <<>>)

\* C16: `[a: 1]` is converted: the one entry of the flow sequence is a block
\* mapping over [1,5] holding one pair.
C16_FlowPairWrapped ==
    /\ Done
    /\ code = SrcFlowPair
    /\ Len(nodes[3].entries) = 1
    /\ nodes[nodes[3].entries[1]].type = "YAMLMapping"
    /\ nodes[nodes[3].entries[1]].style = "block"
    /\ Len(nodes[nodes[3].entries[1]].pairs) = 1

\* C16: `- a\n-\n- b` is converted: three items, two entries, in order.
C16_EmptyItemSkipped ==
    /\ Done
    /\ code = SrcSeqGap
    /\ Len(nodes[3].entries) = 2
    /\ nodes[nodes[3].entries[1]].range = <<2, 3>>
    /\ nodes[nodes[3].entries[2]].range = <<8, 9>>

\* C16: `: v` is converted: the pair has no key.
C16_EmptyKeyIsNull ==
    /\ Done
    /\ code = SrcEmptyKey
    /\ \E p \in NodeIds :
          nodes[p].type = "YAMLPair" /\ nodes[p].key = 0 /\ nodes[p].value # 0

\* --------------------------------------------------------------------- C17
\* The offset i lies in the range of one of the items.
Covered(i, items) ==
    \E k \in 1..Len(items) : items[k].range[1] <= i /\ i < items[k].range[2]

\* The working text has the length of the source and agrees with it at
\* every offset the items do not cover.
KeepsOffsets(work, items) ==
    /\ Len(work) = Len(code)
    /\ \A i \in 0..(Len(code) - 1) :
          ~Covered(i, items) => work[i + 1] = code[i + 1]

\* C17: the text the walk is given has the length of the source and agrees
\* with it outside the comments, and the text the scan reads has the length
\* of the source and agrees with it outside the comments and the tokens.
C17_BlankingKeepsOffsets ==
    /\ pc \in {"walk", "scan", "done"} => KeepsOffsets(stripCommentCode, comments)
    /\ pc \in {"scan", "done"} => KeepsOffsets(stripTokensCode, comments \o tokens)

\* C17, the failing input `# <U+1F600>\na: 1`: the comment [0,4] holds a
\* surrogate pair, the blanked text is one unit shorter than the source, and
\* the `a` of offset 5 is at offset 4 of the text the walk is given.
C17_AstralCommentShrinksText ==
    /\ pc = "walk"
    /\ code = SrcAstralComment
    /\ Len(stripCommentCode) = Len(code) - 1
    /\ code[6] = "a"
    /\ stripCommentCode[5] = "a"

\* C17: a token holding a surrogate pair shortens the text the scan reads.
C17_AstralTokenShrinksText ==
    /\ pc = "scan"
    /\ code = SrcAstralKey
    /\ Len(stripCommentCode) = Len(code)
    /\ Len(stripTokensCode) = Len(code) - 1

\* C17 on texts without a surrogate pair.
C17_KeepsOffsetsOfOneUnitTexts ==
    (\A i \in 1..Len(code) : code[i] # "HS") => C17_BlankingKeepsOffsets

====
